---- MODULE Spec2Model ----
(***************************************************************************)
(* article-checker: the deduplication and caching layer (CacheManager over *)
(* a local JSON file or a GitHub Gist CSV) and the run of scripts/run.py.  *)
(*                                                                         *)
(* Time is counted in whole days since 2000-01-01 (the default timestamp   *)
(* of cache.py).  A Python dict is a sequence of [key, val] entries in     *)
(* insertion order.  A text is a TLA+ string, except an author name, which *)
(* is a sequence of characters so that lower() and strip() act on it, and  *)
(* a timestamp text, which is <<"iso", day>> when datetime.fromisoformat   *)
(* parses it.  md5 is an injective tagging of the text it digests.         *)
(***************************************************************************)
EXTENDS Integers, Sequences, FiniteSets, TLC

VARIABLES
    backend,        \* "local" or "gist": whether GIST_ID and GH_GIST_TOKEN are set
    now,            \* datetime.now(), in days
    store_author,   \* the persisted author cache (author_cache.json / author_cache.csv)
    store_sent,     \* the persisted sent papers (sent_papers.json / sent_papers.csv)
    cm_state,       \* "none": no CacheManager, "ready": constructed, "saved": save()
                    \* has returned, "raised": __init__ raised
    author_cache,   \* CacheManager._author_cache
    sent_papers,    \* CacheManager._sent_papers
    load_outcome,   \* what the two loads of the last construction met, and its day
    last,           \* the call on the CacheManager made by the last step, and what it returned
    ops,            \* calls made that change a mapping
    saved_sent,     \* _sent_papers as of the last save whose sent-papers write succeeded
    procs,          \* processes started so far
    pc,             \* where main() of scripts/run.py is
    cfg,            \* the command line and the settings of feeds.yaml
    all_papers,     \* main's all_papers
    papers,         \* main's papers
    idx,            \* papers of the loop already processed
    notified,       \* the papers send_paper was called with in this run, in order
    send_results,   \* what send_paper returned for each of them
    sent_at_load,   \* _sent_papers right after the construction of this run
    prev,           \* what the run before this one left behind
    racers          \* the CacheManagers of processes that run at the same time

cmvars == <<backend, now, store_author, store_sent, cm_state, author_cache,
            sent_papers, load_outcome, saved_sent, procs>>
apivars == <<last, ops>>
runvars == <<pc, cfg, all_papers, papers, idx, notified, send_results, sent_at_load,
             prev, racers>>
vars == <<cmvars, apivars, runvars>>

-----------------------------------------------------------------------------
(* Bounds of the model *)

MaxTicks == 1       \* days that pass during the model's life
MaxOps == 2         \* calls on one CacheManager
MaxPapers == 2      \* longest list of papers
MaxProcs == 2       \* processes (CacheManager constructions)
StartDay == 9000    \* the day the first process starts

(* Program constants *)

AuthorCacheExpiryDays == 180
SentPapersExpiryDays == 30
DefaultDay == 0     \* "2000-01-01"
DefaultMaxPapersPerRun == 50
DefaultMaxAuthors == 5

-----------------------------------------------------------------------------
(* Python dicts, in insertion order *)

EmptyDict == <<>>

DictKeys(d) == {d[i].key : i \in 1..Len(d)}

DictHas(d, k) == \E i \in 1..Len(d) : d[i].key = k

DictGet(d, k) == d[CHOOSE i \in 1..Len(d) : d[i].key = k].val

DictSet(d, k, v) ==
    IF DictHas(d, k)
    THEN [i \in 1..Len(d) |-> IF d[i].key = k THEN [key |-> k, val |-> v] ELSE d[i]]
    ELSE Append(d, [key |-> k, val |-> v])

DictValues(d) == [i \in 1..Len(d) |-> d[i].val]

\* data.get(field, default)
Get(data, field, default) == IF field \in DOMAIN data THEN data[field] ELSE default

-----------------------------------------------------------------------------
(* Texts and values *)

Alphabet == {"J", "j", " "}

\* an author name, its variants in letter case and in outer whitespace, and
\* the name of another author
Names == {<<"J">>, <<"j">>, <<" ", "J">>, <<"j", " ">>, <<"j", "J">>}

\* str.lower()
Lower(s) == [i \in 1..Len(s) |-> IF s[i] = "J" THEN "j" ELSE s[i]]

RECURSIVE LStrip(_)
LStrip(s) == IF s # <<>> /\ Head(s) = " " THEN LStrip(Tail(s)) ELSE s

RECURSIVE RStrip(_)
RStrip(s) == IF s # <<>> /\ s[Len(s)] = " " THEN RStrip(SubSeq(s, 1, Len(s) - 1)) ELSE s

\* str.strip()
Strip(s) == RStrip(LStrip(s))

\* hashlib.md5(text.encode()).hexdigest()
Md5(text) == <<"md5", text>>

\* datetime.isoformat() of a day, and the texts fromisoformat() rejects
Iso(day) == <<"iso", day>>
EmptyStamp == <<"", 0>>
GarbageStamp == <<"garbage", 0>>

Parseable(stamp) == stamp[1] = "iso"
FromIso(stamp) == stamp[2]

\* metric values: an int, None, and what the CSV holds for them
IntV(n) == <<"int", n>>
NoneV == <<"none", 0>>
DigitsV(n) == <<"digits", n>>
EmptyV == <<"empty", 0>>

AuthorCacheColumns == <<"name", "h_index", "citation_count", "paper_count", "url", "cached_at">>
SentPapersColumns == <<"paper_id", "doi", "title", "source", "source_symbol", "sent_at",
                       "citation_label">>

MetricColumns == {"h_index", "citation_count", "paper_count"}
StampColumns == {"cached_at", "sent_at"}

-----------------------------------------------------------------------------
(* CacheManager: keys, author cache, sent papers *)

\* (mutant) the key without strip()
AuthorKey_NoStrip(name) == Md5(Lower(name))

\* CacheManager._author_key
AuthorKey(name) == Md5(Strip(Lower(name)))

\* CacheManager._paper_key
PaperKey(paper_id) == Md5(paper_id)

None == [none |-> TRUE]

\* (mutant) get_author without the check of the age at the time of the call
GetAuthorIn_NoRecheck(ac, name, day) ==
    IF DictHas(ac, Md5(Strip(Lower(name)))) THEN DictGet(ac, Md5(Strip(Lower(name))))
    ELSE None

\* CacheManager.get_author on the mapping ac at the time day
GetAuthorIn(ac, name, day) ==
    LET key == AuthorKey(name) IN
    IF ~DictHas(ac, key) THEN None
    ELSE LET data == DictGet(ac, key)
             cached_at == FromIso(Get(data, "cached_at", Iso(DefaultDay)))
         IN IF DOMAIN data # {} /\ day - cached_at <= AuthorCacheExpiryDays
            THEN data ELSE None

\* (mutant) a set_author that keeps the cached_at of the entry it replaces
SetAuthorIn_KeepingStamp(ac, name, data, day) ==
    DictSet(ac, AuthorKey(name),
            [name |-> name, h_index |-> data.h_index,
             citation_count |-> data.citation_count,
             paper_count |-> data.paper_count, url |-> data.url,
             cached_at |-> IF DictHas(ac, AuthorKey(name))
                           THEN DictGet(ac, AuthorKey(name)).cached_at
                           ELSE Iso(day)])

\* CacheManager.set_author
SetAuthorIn(ac, name, data, day) ==
    DictSet(ac, AuthorKey(name),
            [name |-> name, h_index |-> data.h_index,
             citation_count |-> data.citation_count,
             paper_count |-> data.paper_count, url |-> data.url,
             cached_at |-> Iso(day)])

\* (mutant) a lookup that never finds a record
IsPaperSentIn_Never(sp, paper_id) == FALSE

\* CacheManager.is_paper_sent
IsPaperSentIn(sp, paper_id) == DictHas(sp, PaperKey(paper_id))

\* (mutant) a record that is new is put in front of the others
MarkPaperSentIn_Front(sp, paper_id, title, source, doi, source_symbol, citation_label, day) ==
    LET rec == [paper_id |-> paper_id, doi |-> doi, title |-> title, source |-> source,
                source_symbol |-> source_symbol, sent_at |-> Iso(day),
                citation_label |-> citation_label]
    IN IF DictHas(sp, PaperKey(paper_id))
       THEN DictSet(sp, PaperKey(paper_id), rec)
       ELSE <<[key |-> PaperKey(paper_id), val |-> rec]>> \o sp

\* CacheManager.mark_paper_sent
MarkPaperSentIn(sp, paper_id, title, source, doi, source_symbol, citation_label, day) ==
    DictSet(sp, PaperKey(paper_id),
            [paper_id |-> paper_id, doi |-> doi, title |-> title, source |-> source,
             source_symbol |-> source_symbol, sent_at |-> Iso(day),
             citation_label |-> citation_label])

\* (mutant) the filter with its test inverted
GetUnsentPapersIn_Inverted(sp, ps) == SelectSeq(ps, LAMBDA p : DictHas(sp, Md5(p.id)))

\* CacheManager.get_unsent_papers
GetUnsentPapersIn(sp, ps) == SelectSeq(ps, LAMBDA p : ~IsPaperSentIn(sp, p.id))

-----------------------------------------------------------------------------
(* The local JSON file *)

\* json.dump / json.load of one value: an int is a JSON number, None is null
JsonValue(v) ==
    IF v[1] = "int" THEN <<"jnum", v[2]>>
    ELSE IF v[1] = "none" THEN <<"jnull", 0>> ELSE v

PyValue(j) ==
    IF j[1] = "jnum" THEN IntV(j[2])
    ELSE IF j[1] = "jnull" THEN NoneV ELSE j

JsonDump(data) ==
    [i \in 1..Len(data) |->
        [key |-> data[i].key,
         val |-> [f \in DOMAIN data[i].val |->
                     IF f \in MetricColumns THEN JsonValue(data[i].val[f])
                     ELSE data[i].val[f]]]]

JsonLoad(text) ==
    [i \in 1..Len(text) |->
        [key |-> text[i].key,
         val |-> [f \in DOMAIN text[i].val |->
                     IF f \in MetricColumns THEN PyValue(text[i].val[f])
                     ELSE text[i].val[f]]]]

AbsentFile == [kind |-> "absent", isdict |-> TRUE, d |-> <<>>]
UnparsableFile == [kind |-> "unparsable", isdict |-> TRUE, d |-> <<>>]
\* a file holding valid JSON that is a list, not an object
ListFile == [kind |-> "json", isdict |-> FALSE, d |-> <<>>]
JsonFile(data) == [kind |-> "json", isdict |-> TRUE, d |-> JsonDump(data)]

\* CacheManager._load_json: what the call returns
LoadJson(file) ==
    IF file.kind = "absent" THEN [isdict |-> TRUE, d |-> EmptyDict]
    ELSE IF file.kind = "unparsable" THEN [isdict |-> TRUE, d |-> EmptyDict]
    ELSE [isdict |-> file.isdict, d |-> JsonLoad(file.d)]

\* CacheManager._save_json: the file after the call.  open(path, "w") truncates
\* the file before json.dump writes it.
SaveJson(file, data, outcome) ==
    IF outcome = "ok" THEN JsonFile(data)
    ELSE IF outcome = "open_failed" THEN file
    ELSE UnparsableFile

LocalSaveOutcomes == {"ok", "open_failed", "write_failed"}

-----------------------------------------------------------------------------
(* The Gist CSV file *)

Range(seq) == {seq[i] : i \in 1..Len(seq)}

\* the empty text, as each column holds it
EmptyOf(col) ==
    IF col = "name" THEN <<>>
    ELSE IF col \in MetricColumns THEN EmptyV
    ELSE IF col \in StampColumns THEN EmptyStamp
    ELSE ""

\* csv.writer's text of one value: str(int), "" for None
CsvCell(col, v) ==
    IF col \in MetricColumns
    THEN (IF v[1] = "int" THEN DigitsV(v[2]) ELSE IF v[1] = "none" THEN EmptyV ELSE v)
    ELSE v

\* how Python orders the texts of a column: "" before every other text, the
\* ISO dates by day, the citation labels of the model by their first letters
StampOrd(stamp) == IF Parseable(stamp) THEN FromIso(stamp) ELSE -1

TextOrd(text) ==
    IF text = "" THEN 0 ELSE IF text = "Doe_Qubits" THEN 1 ELSE 2

ColumnOrd(r, col) ==
    IF col \in StampColumns THEN StampOrd(Get(r, col, EmptyStamp))
    ELSE TextOrd(Get(r, col, ""))

RECURSIVE InsertByColumn(_, _, _)
InsertByColumn(sorted, r, col) ==
    IF sorted = <<>> THEN <<r>>
    ELSE LET n == Len(sorted) IN
         IF ColumnOrd(sorted[n], col) <= ColumnOrd(r, col)
         THEN Append(sorted, r)
         ELSE Append(InsertByColumn(SubSeq(sorted, 1, n - 1), r, col), sorted[n])

\* sorted(rows, key=lambda r: r.get(col, "")): stable
RECURSIVE SortedByColumn(_, _)
SortedByColumn(rows, col) ==
    IF rows = <<>> THEN <<>>
    ELSE InsertByColumn(SortedByColumn(SubSeq(rows, 1, Len(rows) - 1), col),
                        rows[Len(rows)], col)

AbsentGistFile == [kind |-> "absent", isdict |-> TRUE, d |-> <<>>]
BlankGistFile == [kind |-> "blank", isdict |-> TRUE, d |-> <<>>]
CsvFile(rows) == [kind |-> "csv", isdict |-> TRUE, d |-> rows]

\* (mutant) the key taken from the last column
KeyFor_LastColumn(row, columns) ==
    <<"md5", Get(row, columns[Len(columns)], EmptyOf(columns[Len(columns)]))>>

\* GistStore._key_for
KeyFor(row, columns) == Md5(Get(row, columns[1], EmptyOf(columns[1])))

RECURSIVE RowsToDict(_, _)
RowsToDict(rows, columns) ==
    IF rows = <<>> THEN EmptyDict
    ELSE LET n == Len(rows) IN
         DictSet(RowsToDict(SubSeq(rows, 1, n - 1), columns),
                 KeyFor(rows[n], columns),
                 [c \in Range(columns) |-> Get(rows[n], c, EmptyOf(c))])

\* (mutant) a load that answers from the last document it has seen when the
\* request fails
GistLoad_Stale(file, columns, outcome) ==
    IF file.kind \in {"absent", "blank"} THEN [isdict |-> TRUE, d |-> EmptyDict]
    ELSE [isdict |-> TRUE, d |-> RowsToDict(file.d, columns)]

\* GistStore.load: what the call returns
GistLoad(file, columns, outcome) ==
    IF outcome = "unreachable" THEN [isdict |-> TRUE, d |-> EmptyDict]
    ELSE IF file.kind = "absent" THEN [isdict |-> TRUE, d |-> EmptyDict]
    ELSE IF file.kind = "blank" THEN [isdict |-> TRUE, d |-> EmptyDict]
    ELSE [isdict |-> TRUE, d |-> RowsToDict(file.d, columns)]

\* the CSV text GistStore.save uploads
CsvOf(data, columns) ==
    LET rows == SortedByColumn(DictValues(data), columns[Len(columns)]) IN
    CsvFile([i \in 1..Len(rows) |->
                [c \in Range(columns) |-> CsvCell(c, Get(rows[i], c, EmptyOf(c)))]])

\* (mutant) a save that keeps the rows the document already has
GistSave_Keeping(file, data, columns, outcome) ==
    IF outcome = "ok"
    THEN [file |-> CsvFile(file.d \o CsvOf(data, columns).d), raised |-> FALSE]
    ELSE [file |-> file, raised |-> TRUE]

\* GistStore.save: the file after the call, and whether the call raised
GistSave(file, data, columns, outcome) ==
    IF outcome = "ok" THEN [file |-> CsvOf(data, columns), raised |-> FALSE]
    ELSE [file |-> file, raised |-> TRUE]

GistOutcomes == {"ok", "unreachable"}

-----------------------------------------------------------------------------
(* CacheManager: load, cleanup, save *)

\* (mutant) an entry exactly at the threshold counts as expired
Expired_AtThreshold(data, field, day, expiry) ==
    day - FromIso(Get(data, field, Iso(DefaultDay))) >= expiry

Expired(data, field, day, expiry) ==
    day - FromIso(Get(data, field, Iso(DefaultDay))) > expiry

\* datetime.fromisoformat raises on one of the timestamps, or the loaded value
\* has no .items()
CleanupRaises(loaded, field) ==
    \/ ~loaded.isdict
    \/ \E i \in 1..Len(loaded.d) : ~Parseable(Get(loaded.d[i].val, field, Iso(DefaultDay)))

\* CacheManager._cleanup_expired on the two loaded values
CleanupExpired(a, s, day) ==
    IF CleanupRaises(a, "cached_at") \/ CleanupRaises(s, "sent_at")
    THEN [raised |-> TRUE, author |-> EmptyDict, sent |-> EmptyDict]
    ELSE [raised |-> FALSE,
          author |-> SelectSeq(a.d, LAMBDA e :
                        ~Expired(e.val, "cached_at", day, AuthorCacheExpiryDays)),
          sent |-> SelectSeq(s.d, LAMBDA e :
                        ~Expired(e.val, "sent_at", day, SentPapersExpiryDays))]

\* CacheManager._load_caches
LoadCaches(bk, fileA, fileS, outA, outS, day) ==
    CleanupExpired(
        IF bk = "gist" THEN GistLoad(fileA, AuthorCacheColumns, outA) ELSE LoadJson(fileA),
        IF bk = "gist" THEN GistLoad(fileS, SentPapersColumns, outS) ELSE LoadJson(fileS),
        day)

\* CacheManager.save, one of its two halves: the file after it
SaveOne(bk, file, data, columns, outcome) ==
    IF bk = "gist" THEN GistSave(file, data, columns, outcome).file
    ELSE SaveJson(file, data, outcome)

\* (mutant) a half of save that lets the failure of its write out
SaveHalf_Propagating(bk, file, data, columns, outcome) ==
    [file |-> SaveOne(bk, file, data, columns, outcome), raised |-> outcome # "ok"]

\* CacheManager.save, one of its two halves: the file after it and whether an
\* exception leaves it.  The except clause around store.save and the one
\* inside _save_json catch Exception.
SaveHalf(bk, file, data, columns, outcome) ==
    [file |-> SaveOne(bk, file, data, columns, outcome), raised |-> FALSE]

\* CacheManager.save: the author cache first, then the sent papers; wrote
\* lists the writes it attempted
SaveCaches(bk, fileA, fileS, ac, sp, outA, outS) ==
    LET a == SaveHalf(bk, fileA, ac, AuthorCacheColumns, outA)
        s == SaveHalf(bk, fileS, sp, SentPapersColumns, outS)
    IN IF a.raised
       THEN [author |-> a.file, sent |-> fileS, wrote |-> <<"author">>, raised |-> TRUE]
       ELSE [author |-> a.file, sent |-> s.file, wrote |-> <<"author", "sent">>,
             raised |-> s.raised]

LoadOutcomes(bk) == IF bk = "gist" THEN GistOutcomes ELSE {"file"}
SaveOutcomes(bk) == IF bk = "gist" THEN GistOutcomes ELSE LocalSaveOutcomes

-----------------------------------------------------------------------------
(* Papers, as the sources build them *)

NoDoi == "None"

AuthorName(firstname, lastname) ==
    [firstname |-> firstname, lastname |-> lastname,
     fullname |-> IF firstname = "" THEN lastname ELSE firstname \o " " \o lastname]

\* a journal paper without authors, a preprint with one author, and the
\* journal paper as a second feed lists it
PaperA == [id |-> "10.1103/a", doi |-> "10.1103/a", title |-> "Spin chains",
           source |-> "PRX Quantum", source_symbol |-> "PRX-Q",
           authors |-> <<>>, yy |-> "24"]
PaperB == [id |-> "arxiv.org/abs/1", doi |-> NoDoi, title |-> "Qubits",
           source |-> "arXiv:hep-th", source_symbol |-> "arxiv/hep-th",
           authors |-> <<AuthorName("Jane", "Doe")>>, yy |-> ""]
PaperA2 == [id |-> "10.1103/a", doi |-> "10.1103/a", title |-> "Spin chains",
            source |-> "Physics", source_symbol |-> "",
            authors |-> <<>>, yy |-> "24"]

AllPapers == {PaperA, PaperB, PaperA2}
PaperIds == {p.id : p \in AllPapers}
PaperLists == UNION {[1..n -> AllPapers] : n \in 0..MaxPapers}

\* title.replace(" ", "")
RemoveSpaces(title) == IF title = "Spin chains" THEN "Spinchains" ELSE title

RECURSIVE JoinLastnames(_)
JoinLastnames(authors) ==
    IF Len(authors) = 1 THEN authors[1].lastname
    ELSE JoinLastnames(SubSeq(authors, 1, Len(authors) - 1))
         \o "-" \o authors[Len(authors)].lastname

\* EmailSender.build_citation_label
BuildCitationLabel(paper) ==
    IF paper.authors = <<>> THEN RemoveSpaces(paper.title)
    ELSE IF Len(paper.authors) > 3
    THEN paper.authors[1].lastname \o "+" \o paper.yy \o "_" \o RemoveSpaces(paper.title)
    ELSE JoinLastnames(paper.authors) \o "_" \o RemoveSpaces(paper.title)

\* the call of mark_paper_sent in main and in seed_cache
MarkSent(sp, paper, day) ==
    MarkPaperSentIn(sp, paper.id, paper.title, paper.source,
                    IF paper.doi = NoDoi THEN "" ELSE paper.doi,
                    paper.source_symbol, BuildCitationLabel(paper), day)

\* what AuthorEvaluator passes to set_author: the metrics of a found author,
\* and of one whose hIndex the service gives as null
MetricsA == [h_index |-> IntV(42), citation_count |-> IntV(1000),
             paper_count |-> IntV(50), url |-> "https://s2/a"]
MetricsB == [h_index |-> NoneV, citation_count |-> IntV(0),
             paper_count |-> IntV(0), url |-> ""]
Metrics == {MetricsA, MetricsB}

-----------------------------------------------------------------------------
(* What the persistent store holds when the model starts *)

Ages(expiry) == {expiry - 1, expiry, expiry + 1}

InitNames == {<<"J">>, <<"j">>}

\* mappings an earlier process had in memory when it saved
InitAuthorData ==
    {EmptyDict} \cup
    {SetAuthorIn(EmptyDict, n, MetricsA, StartDay - age) :
        n \in InitNames, age \in Ages(AuthorCacheExpiryDays)}

InitSentData ==
    {EmptyDict} \cup
    {MarkSent(EmptyDict, PaperA, StartDay - age) : age \in Ages(SentPapersExpiryDays)} \cup
    {MarkSent(MarkSent(EmptyDict, PaperB, StartDay - (SentPapersExpiryDays + 1)),
              PaperA, StartDay - SentPapersExpiryDays)}

\* a record whose timestamp does not parse, and one without a timestamp
BadStampAuthor == [name |-> <<"j">>, h_index |-> IntV(42), citation_count |-> IntV(1000),
                   paper_count |-> IntV(50), url |-> "https://s2/a",
                   cached_at |-> GarbageStamp]
NoStampAuthor == [name |-> <<"j">>, h_index |-> IntV(42)]
BadStampSent == [paper_id |-> "10.1103/a", doi |-> "10.1103/a", title |-> "Spin chains",
                 source |-> "PRX Quantum", source_symbol |-> "PRX-Q",
                 sent_at |-> EmptyStamp, citation_label |-> "Spinchains"]
NoStampSent == [paper_id |-> "10.1103/a", title |-> "Spin chains"]
\* a row of a text that is not the CSV of the schema: no column of it is read
ForeignRow == [html |-> "<html>"]

MalformedAuthorFiles(bk) ==
    IF bk = "gist"
    THEN {BlankGistFile, CsvFile(<<ForeignRow>>), CsvFile(<<BadStampAuthor>>)}
    ELSE {UnparsableFile, ListFile,
          JsonFile(<<[key |-> AuthorKey(<<"j">>), val |-> BadStampAuthor]>>),
          JsonFile(<<[key |-> AuthorKey(<<"j">>), val |-> NoStampAuthor]>>)}

MalformedSentFiles(bk) ==
    IF bk = "gist"
    THEN {BlankGistFile, CsvFile(<<ForeignRow>>), CsvFile(<<BadStampSent>>)}
    ELSE {UnparsableFile, ListFile,
          JsonFile(<<[key |-> PaperKey("10.1103/a"), val |-> BadStampSent]>>),
          JsonFile(<<[key |-> PaperKey("10.1103/a"), val |-> NoStampSent]>>)}

WrittenFile(bk, data, columns) ==
    IF bk = "gist" THEN CsvOf(data, columns) ELSE JsonFile(data)

AuthorFiles(bk) ==
    {AbsentFile} \cup {WrittenFile(bk, d, AuthorCacheColumns) : d \in InitAuthorData}
    \cup MalformedAuthorFiles(bk)

SentFiles(bk) ==
    {AbsentFile} \cup {WrittenFile(bk, d, SentPapersColumns) : d \in InitSentData}
    \cup MalformedSentFiles(bk)

PlainAuthorFiles(bk) == {AbsentFile, WrittenFile(bk, SetAuthorIn(EmptyDict, <<"j">>, MetricsA, StartDay - 1), AuthorCacheColumns)}
PlainSentFiles(bk) == {AbsentFile, WrittenFile(bk, MarkSent(EmptyDict, PaperA, StartDay - 1), SentPapersColumns)}

-----------------------------------------------------------------------------
(* The CacheManager of one process, called in any order *)

NoLoad == [author |-> "none", sent |-> "none", day |-> 0]
NoSave == [valid |-> FALSE, d |-> EmptyDict]

\* a call and what it returned; again: a get_unsent_papers that follows a
\* get_unsent_papers of the same list
Call(op, name, rec, ps, ret_list, ret_bool) ==
    [op |-> op, name |-> name, rec |-> rec, papers |-> ps,
     ret_list |-> ret_list, ret_bool |-> ret_bool,
     again |-> op = "get_unsent_papers" /\ last.op = op /\ last.papers = ps]
NoCall == [op |-> "none", name |-> <<>>, rec |-> None, papers |-> <<>>,
           ret_list |-> <<>>, ret_bool |-> FALSE, again |-> FALSE]

\* no processes that run at the same time
NoRacers == <<>>

\* no run before this one
NoPrev == [failed |-> {}, recorded |-> {}, written |-> FALSE]

RunIdle ==
    /\ pc = "idle"
    /\ cfg = [no_cache |-> FALSE, dry_run |-> FALSE, evaluate_authors |-> TRUE,
              max_authors |-> DefaultMaxAuthors, max_papers |-> DefaultMaxPapersPerRun]
    /\ all_papers = <<>>
    /\ papers = <<>>
    /\ idx = 0
    /\ notified = <<>>
    /\ send_results = <<>>
    /\ sent_at_load = EmptyDict
    /\ prev = NoPrev
    /\ racers = NoRacers

InitStore(local_files, gist_files) ==
    /\ backend \in {"local", "gist"}
    /\ now = StartDay
    /\ \E fs \in (IF backend = "gist" THEN gist_files ELSE local_files) : store_author = fs[1] /\ store_sent = fs[2]
    /\ cm_state = "none"
    /\ author_cache = EmptyDict
    /\ sent_papers = EmptyDict
    /\ load_outcome = NoLoad
    /\ saved_sent = NoSave
    /\ procs = 0
    /\ last = NoCall
    /\ ops = 0

AuthorSideFiles(bk) ==
    ({AbsentFile} \cup {WrittenFile(bk, d, AuthorCacheColumns) : d \in InitAuthorData})
    \X {AbsentFile}
SentSideFiles(bk) ==
    {AbsentFile} \X
    ({AbsentFile} \cup {WrittenFile(bk, d, SentPapersColumns) : d \in InitSentData})
LoadSideFiles(bk) == AuthorFiles(bk) \X SentFiles(bk)

InitAuthor == InitStore(AuthorSideFiles("local"), AuthorSideFiles("gist")) /\ RunIdle
InitSent == InitStore(SentSideFiles("local"), SentSideFiles("gist")) /\ RunIdle
InitLoad == InitStore(LoadSideFiles("local"), LoadSideFiles("gist")) /\ RunIdle

\* CacheManager(...): __init__, _load_caches and _cleanup_expired
Construct(outA, outS) ==
    /\ cm_state = "none"
    /\ procs < MaxProcs
    /\ \E r \in {LoadCaches(backend, store_author, store_sent, outA, outS, now)} :
       /\ cm_state' = IF r.raised THEN "raised" ELSE "ready"
       /\ author_cache' = r.author
       /\ sent_papers' = r.sent
    /\ load_outcome' = [author |-> outA, sent |-> outS, day |-> now]
    /\ procs' = procs + 1
    /\ last' = NoCall
    /\ UNCHANGED <<backend, now, store_author, store_sent, saved_sent, ops, runvars>>

\* the process ends
Exit ==
    /\ cm_state \in {"ready", "saved", "raised"}
    /\ cm_state' = "none"
    /\ author_cache' = EmptyDict
    /\ sent_papers' = EmptyDict
    /\ load_outcome' = NoLoad
    /\ last' = NoCall
    /\ UNCHANGED <<backend, now, store_author, store_sent, saved_sent, procs, ops, runvars>>

SetAuthor(name, data) ==
    /\ cm_state = "ready"
    /\ ops < MaxOps
    /\ author_cache' = SetAuthorIn(author_cache, name, data, now)
    /\ last' = Call("set_author", name, data, <<>>, <<>>, FALSE)
    /\ ops' = ops + 1
    /\ UNCHANGED <<backend, now, store_author, store_sent, cm_state, sent_papers,
                   load_outcome, saved_sent, procs, runvars>>

GetAuthor(name) ==
    /\ cm_state = "ready"
    /\ last' = Call("get_author", name, GetAuthorIn(author_cache, name, now),
                    <<>>, <<>>, FALSE)
    /\ UNCHANGED <<cmvars, ops, runvars>>

MarkPaperSent(paper) ==
    /\ cm_state = "ready"
    /\ ops < MaxOps
    /\ sent_papers' = MarkSent(sent_papers, paper, now)
    /\ last' = Call("mark_paper_sent", <<>>, None, <<paper>>, <<>>, FALSE)
    /\ ops' = ops + 1
    /\ UNCHANGED <<backend, now, store_author, store_sent, cm_state, author_cache,
                   load_outcome, saved_sent, procs, runvars>>

IsPaperSent(paper) ==
    /\ cm_state = "ready"
    /\ last' = Call("is_paper_sent", <<>>, None, <<paper>>, <<>>,
                    IsPaperSentIn(sent_papers, paper.id))
    /\ UNCHANGED <<cmvars, ops, runvars>>

\* (mutant) a filter that records what it returns as sent
GetUnsentPapers_Marking(ps) ==
    /\ cm_state = "ready"
    /\ last' = Call("get_unsent_papers", <<>>, None, ps,
                    GetUnsentPapersIn(sent_papers, ps), FALSE)
    /\ sent_papers' = IF GetUnsentPapersIn(sent_papers, ps) = <<>> THEN sent_papers
                      ELSE MarkSent(sent_papers, GetUnsentPapersIn(sent_papers, ps)[1], now)
    /\ UNCHANGED <<backend, now, store_author, store_sent, cm_state, author_cache,
                   load_outcome, saved_sent, procs, ops, runvars>>

GetUnsentPapers(ps) ==
    /\ cm_state = "ready"
    /\ last' = Call("get_unsent_papers", <<>>, None, ps,
                    GetUnsentPapersIn(sent_papers, ps), FALSE)
    /\ UNCHANGED <<cmvars, ops, runvars>>

\* CacheManager.save, the last call every script of the repository makes
\* a save call and how it went
SaveCall(outA, outS, r) ==
    [op |-> "save", name |-> <<>>, rec |-> None, papers |-> <<>>, ret_list |-> <<>>,
     ret_bool |-> FALSE, again |-> FALSE,
     out_author |-> outA, out_sent |-> outS, wrote |-> r.wrote, raised |-> r.raised]

\* (mutant) a save that drops a mapping it could not write
Save_Dropping(outA, outS) ==
    /\ cm_state = "ready"
    /\ \E r \in {SaveCaches(backend, store_author, store_sent, author_cache,
                             sent_papers, outA, outS)} :
       /\ cm_state' = IF r.raised THEN "raised" ELSE "saved"
       /\ store_author' = r.author
       /\ store_sent' = r.sent
       /\ last' = SaveCall(outA, outS, r)
    /\ saved_sent' = IF outS = "ok" THEN [valid |-> TRUE, d |-> sent_papers]
                     ELSE IF store_sent' = store_sent THEN saved_sent ELSE NoSave
    /\ author_cache' = IF outA = "ok" THEN author_cache ELSE EmptyDict
    /\ sent_papers' = IF outS = "ok" THEN sent_papers ELSE EmptyDict
    /\ UNCHANGED <<backend, now, load_outcome, procs, ops, runvars>>

Save(outA, outS) ==
    /\ cm_state = "ready"
    /\ \E r \in {SaveCaches(backend, store_author, store_sent, author_cache,
                             sent_papers, outA, outS)} :
       /\ cm_state' = IF r.raised THEN "raised" ELSE "saved"
       /\ store_author' = r.author
       /\ store_sent' = r.sent
       /\ last' = SaveCall(outA, outS, r)
    /\ saved_sent' = IF "sent" \in Range(last'.wrote) /\ outS = "ok"
                     THEN [valid |-> TRUE, d |-> sent_papers]
                     ELSE IF store_sent' = store_sent THEN saved_sent ELSE NoSave
    /\ UNCHANGED <<backend, now, author_cache, sent_papers, load_outcome,
                   procs, ops, runvars>>

\* a day passes
Tick ==
    /\ now < StartDay + MaxTicks
    /\ now' = now + 1
    /\ last' = NoCall
    /\ UNCHANGED <<backend, store_author, store_sent, cm_state, author_cache,
                   sent_papers, load_outcome, saved_sent, procs, ops, runvars>>

CmNext ==
    \/ \E outA, outS \in LoadOutcomes(backend) : Construct(outA, outS)
    \/ Exit
    \/ \E outA, outS \in SaveOutcomes(backend) : Save(outA, outS)
    \/ Tick

NextAuthor ==
    \/ CmNext
    \/ \E name \in Names, data \in Metrics : SetAuthor(name, data)
    \/ \E name \in Names : GetAuthor(name)

NextSent ==
    \/ CmNext
    \/ \E paper \in AllPapers : MarkPaperSent(paper)
    \/ \E paper \in AllPapers : IsPaperSent(paper)
    \/ \E ps \in PaperLists : GetUnsentPapers(ps)

\* a process that constructs the CacheManager and ends
NextLoad ==
    \/ \E outA, outS \in LoadOutcomes(backend) : Construct(outA, outS)
    \/ Exit
    \/ Tick

SpecAuthor == InitAuthor /\ [][NextAuthor]_vars
SpecSent == InitSent /\ [][NextSent]_vars
SpecLoad == InitLoad /\ [][NextLoad]_vars

\* a CacheManager on an empty store, called with set_author and
\* mark_paper_sent in any order, saved, and constructed again
ColdFiles(bk) == {<<AbsentFile, AbsentFile>>}

InitCold == InitStore(ColdFiles("local"), ColdFiles("gist")) /\ RunIdle

NextCold ==
    \/ CmNext
    \/ \E name \in Names, data \in Metrics : SetAuthor(name, data)
    \/ \E paper \in AllPapers : MarkPaperSent(paper)
    \/ \E name \in Names : GetAuthor(name)
    \/ \E paper \in AllPapers : IsPaperSent(paper)

SpecCold == InitCold /\ [][NextCold]_vars

-----------------------------------------------------------------------------
(* main() of scripts/run.py, run after run on the same store *)

MaxPapersSettings == {1, DefaultMaxPapersPerRun}
MaxAuthorsSettings == {0, DefaultMaxAuthors}

Settings ==
    [no_cache : BOOLEAN, dry_run : BOOLEAN, evaluate_authors : BOOLEAN,
     max_authors : MaxAuthorsSettings, max_papers : MaxPapersSettings]

\* main never reads the author cache (see EvaluateRaises): one author file
RunSideFiles(bk) ==
    (PlainAuthorFiles(bk) \ {AbsentFile}) \X
    ({AbsentFile} \cup {WrittenFile(bk, d, SentPapersColumns) : d \in InitSentData})

Init ==
    /\ InitStore(RunSideFiles("local"), RunSideFiles("gist"))
    /\ pc = "start"
    /\ cfg \in Settings
    /\ all_papers = <<>>
    /\ papers = <<>>
    /\ idx = 0
    /\ notified = <<>>
    /\ send_results = <<>>
    /\ sent_at_load = EmptyDict
    /\ prev = NoPrev
    /\ racers = NoRacers

\* papers[:max_papers] when the list is longer
Limit(ps, max_papers) ==
    IF Len(ps) > max_papers THEN SubSeq(ps, 1, max_papers) ELSE ps

\* evaluate_paper raises: _evaluate_author hands the AuthorName tuple of the
\* first author to get_author, whose name.lower() does not exist on a tuple
EvaluateRaises(paper, max_authors) ==
    SubSeq(paper.authors, 1, IF max_authors < Len(paper.authors)
                             THEN max_authors ELSE Len(paper.authors)) # <<>>

\* main: cache = CacheManager(...)
RunConstruct(outA, outS) ==
    /\ pc = "start"
    /\ procs < MaxProcs
    /\ \E r \in {LoadCaches(backend, store_author, store_sent, outA, outS, now)} :
       /\ cm_state' = IF r.raised THEN "raised" ELSE "ready"
       /\ pc' = IF r.raised THEN "crashed" ELSE "fetch"
       /\ author_cache' = r.author
       /\ sent_papers' = r.sent
       /\ sent_at_load' = r.sent
    /\ load_outcome' = [author |-> outA, sent |-> outS, day |-> now]
    /\ procs' = procs + 1
    /\ UNCHANGED <<backend, now, store_author, store_sent, saved_sent, apivars, cfg,
                   all_papers, papers, idx, notified, send_results, prev, racers>>

\* main: all_papers = fetch_all_papers(feeds_config)
RunFetch(ps) ==
    /\ pc = "fetch"
    /\ all_papers' = ps
    /\ pc' = "filter"
    /\ UNCHANGED <<cmvars, apivars, cfg, papers, idx, notified, send_results,
                   sent_at_load, prev, racers>>

\* main: the filter on the sent papers and the limit of max_papers_per_run
RunFilter ==
    /\ pc = "filter"
    /\ papers' = Limit(IF cfg.no_cache THEN all_papers
                       ELSE GetUnsentPapersIn(sent_papers, all_papers),
                       cfg.max_papers)
    /\ pc' = IF papers' = <<>> THEN "save" ELSE "process"
    /\ last' = IF cfg.no_cache THEN NoCall
               ELSE Call("get_unsent_papers", <<>>, None, all_papers,
                         GetUnsentPapersIn(sent_papers, all_papers), FALSE)
    /\ UNCHANGED <<cmvars, ops, cfg, all_papers, idx, notified, send_results,
                   sent_at_load, prev, racers>>

\* (mutant) a loop that records the paper whatever send_paper returned
MarksAfter_Always(sent) == TRUE

\* main: if sender.send_paper(paper): cache.mark_paper_sent(...)
MarksAfter(sent) == sent

\* main: one turn of the loop over papers; sent is what send_paper returns
RunProcess(sent) ==
    /\ pc = "process"
    /\ LET paper == papers[idx + 1] IN
       IF cfg.evaluate_authors /\ paper.authors # <<>>
          /\ EvaluateRaises(paper, cfg.max_authors)
       THEN /\ pc' = "crashed"
            /\ UNCHANGED <<sent_papers, idx, notified, send_results, last>>
       ELSE /\ idx' = idx + 1
            /\ pc' = IF idx + 1 = Len(papers) THEN "save" ELSE "process"
            /\ IF cfg.dry_run
               THEN /\ last' = NoCall
                    /\ UNCHANGED <<sent_papers, notified, send_results>>
               ELSE /\ notified' = Append(notified, paper)
                    /\ send_results' = Append(send_results, sent)
                    /\ sent_papers' = IF MarksAfter(sent)
                                      THEN MarkSent(sent_papers, paper, now)
                                      ELSE sent_papers
                    /\ last' = IF MarksAfter(sent)
                               THEN Call("mark_paper_sent", <<>>, None, <<paper>>, <<>>, FALSE)
                               ELSE NoCall
    /\ UNCHANGED <<backend, now, store_author, store_sent, cm_state, author_cache,
                   load_outcome, saved_sent, procs, ops, cfg, all_papers, papers,
                   sent_at_load, prev, racers>>

\* main: cache.save(), on both ways out
RunSave(outA, outS) ==
    /\ pc = "save"
    /\ \E r \in {SaveCaches(backend, store_author, store_sent, author_cache,
                             sent_papers, outA, outS)} :
       /\ cm_state' = IF r.raised THEN "raised" ELSE "saved"
       /\ pc' = IF r.raised THEN "crashed" ELSE "done"
       /\ store_author' = r.author
       /\ store_sent' = r.sent
       /\ saved_sent' = IF "sent" \in Range(r.wrote) /\ outS = "ok"
                        THEN [valid |-> TRUE, d |-> sent_papers]
                        ELSE IF r.sent = store_sent THEN saved_sent ELSE NoSave
    /\ UNCHANGED <<backend, now, author_cache, sent_papers, load_outcome, procs,
                   apivars, cfg, all_papers, papers, idx, notified, send_results,
                   sent_at_load, prev, racers>>

\* the identifiers of the papers for which send_paper returned false
FailedIds(sent_to, results) ==
    {sent_to[i].id : i \in {j \in 1..Len(sent_to) : ~results[j]}}

\* the process ends, by the return of main or by the exception; the next run
\* starts from what this one left
RunExit ==
    /\ pc \in {"done", "crashed"}
    /\ procs < MaxProcs
    /\ pc' = "start"
    /\ cm_state' = "none"
    /\ author_cache' = EmptyDict
    /\ sent_papers' = EmptyDict
    /\ load_outcome' = NoLoad
    /\ all_papers' = <<>>
    /\ papers' = <<>>
    /\ idx' = 0
    /\ notified' = <<>>
    /\ send_results' = <<>>
    /\ sent_at_load' = EmptyDict
    /\ last' = NoCall
    /\ prev' = [failed |-> FailedIds(notified, send_results),
                recorded |-> {id \in FailedIds(notified, send_results) :
                                 IsPaperSentIn(sent_papers, id)},
                written |-> pc = "done" /\ saved_sent.valid /\ saved_sent.d = sent_papers]
    /\ UNCHANGED <<backend, now, store_author, store_sent, saved_sent, procs, ops, cfg,
                   racers>>

\* a day passes between two runs
RunTick ==
    /\ pc = "start"
    /\ now < StartDay + MaxTicks
    /\ now' = now + 1
    /\ UNCHANGED <<backend, store_author, store_sent, cm_state, author_cache,
                   sent_papers, load_outcome, saved_sent, procs, apivars, runvars>>

Next ==
    \/ \E outA, outS \in LoadOutcomes(backend) : RunConstruct(outA, outS)
    \/ \E ps \in PaperLists : RunFetch(ps)
    \/ RunFilter
    \/ \E sent \in BOOLEAN : RunProcess(sent)
    \/ \E outA, outS \in SaveOutcomes(backend) : RunSave(outA, outS)
    \/ RunExit
    \/ RunTick

Spec == Init /\ [][Next]_vars

-----------------------------------------------------------------------------
(* Claims *)

\* C1: in a run started without --no-cache, send_paper is never called with a
\* paper whose identifier has a record in the sent papers as the load-time
\* cleanup of that run left them.
C1_SentRecordMeansSkipped ==
    ~cfg.no_cache =>
        \A i \in 1..Len(notified) : ~DictHas(sent_at_load, PaperKey(notified[i].id))

C1_Witness ==
    /\ ~cfg.no_cache
    /\ pc = "done"
    /\ Len(all_papers) = 2
    /\ DictHas(sent_at_load, PaperKey(all_papers[1].id))
    /\ notified = <<all_papers[2]>>

\* C2: get_unsent_papers returns exactly the subsequence of its input made of
\* the papers p with is_paper_sent(p.id) false, in the order of the input.
Kept(sp, ps) == {i \in 1..Len(ps) : ~IsPaperSentIn(sp, ps[i].id)}

IsTheSubsequence(ret, ps, keep) ==
    /\ Len(ret) = Cardinality(keep)
    /\ \E f \in [1..Len(ret) -> keep] :
          /\ \A j, k \in 1..Len(ret) : j < k => f[j] < f[k]
          /\ \A k \in 1..Len(ret) : ret[k] = ps[f[k]]

C2_UnsentIsOrderedFilter ==
    last.op = "get_unsent_papers" =>
        IsTheSubsequence(last.ret_list, last.papers, Kept(sent_papers, last.papers))

C2_Witness ==
    /\ last.op = "get_unsent_papers"
    /\ Len(last.papers) = 2
    /\ Len(last.ret_list) = 1
    /\ last.ret_list[1] = last.papers[2]

\* C3: a call of get_unsent_papers changes neither mapping, and a second call
\* on the same list, with no call in between, returns what the first returned.
C3_UnsentFilterIsPure ==
    [][last'.op = "get_unsent_papers" =>
          /\ author_cache' = author_cache
          /\ sent_papers' = sent_papers
          /\ (last.op = "get_unsent_papers" /\ last.papers = last'.papers
                => last'.ret_list = last.ret_list)]_vars

C3_Witness ==
    /\ last.op = "get_unsent_papers"
    /\ last.again
    /\ last.ret_list # <<>>
    /\ Len(last.ret_list) < Len(last.papers)

\* C4: right after a construction each mapping holds exactly the loaded
\* entries whose age on the day of the load is at most the threshold of the
\* mapping: one day over the threshold is absent, the threshold itself stays.
LoadedAuthor ==
    IF backend = "gist" THEN GistLoad(store_author, AuthorCacheColumns, load_outcome.author).d
    ELSE LoadJson(store_author).d

LoadedSent ==
    IF backend = "gist" THEN GistLoad(store_sent, SentPapersColumns, load_outcome.sent).d
    ELSE LoadJson(store_sent).d

AgeAtLoad(e, field) == load_outcome.day - Get(e.val, field, Iso(DefaultDay))[2]

ExactlyTheFresh(mapping, loaded, field, threshold) ==
    /\ Range(mapping) = {e \in Range(loaded) : AgeAtLoad(e, field) <= threshold}
    /\ Len(mapping) = Cardinality(Range(mapping))

C4_LoadKeepsExactlyTheFresh ==
    cm_state = "ready" =>
        /\ ExactlyTheFresh(author_cache, LoadedAuthor, "cached_at", AuthorCacheExpiryDays)
        /\ ExactlyTheFresh(sent_papers, LoadedSent, "sent_at", SentPapersExpiryDays)

C4_Witness ==
    /\ cm_state = "ready"
    /\ \E e \in Range(LoadedSent) : AgeAtLoad(e, "sent_at") = SentPapersExpiryDays + 1
    /\ \E e \in Range(sent_papers) : AgeAtLoad(e, "sent_at") = SentPapersExpiryDays
    /\ \E e \in Range(author_cache) : AgeAtLoad(e, "cached_at") = AuthorCacheExpiryDays - 1

\* C5: get_author(name) returns the stored record if and only if an entry is
\* under the key of name and its age at the call is at most the author
\* threshold; an entry that was fresh at the load and is too old at the call
\* gives None.
C5_GetAuthorChecksAgeAtCall ==
    last.op = "get_author" =>
        LET hits == {e \in Range(author_cache) :
                        /\ e.key = AuthorKey(last.name)
                        /\ now - e.val.cached_at[2] <= AuthorCacheExpiryDays}
        IN /\ hits # {} => last.rec \in {e.val : e \in hits}
           /\ hits = {} => last.rec = None

C5_Witness ==
    /\ last.op = "get_author"
    /\ last.rec = None
    /\ \E e \in Range(author_cache) :
          /\ e.key = AuthorKey(last.name)
          /\ load_outcome.day - e.val.cached_at[2] = AuthorCacheExpiryDays
          /\ now - e.val.cached_at[2] > AuthorCacheExpiryDays

\* C6: names that differ only in letter case or in outer whitespace share one
\* entry: after set_author with one of them get_author with any other returns
\* the record just stored, and when get_author already found an entry for a
\* variant, set_author replaces that entry and adds none.
SameLetter(x, y) == x = y \/ {x, y} = {"J", "j"}

IsCoreOf(c, s) ==
    /\ c # <<>> => c[1] # " " /\ c[Len(c)] # " "
    /\ \E i \in 0..Len(s) :
          /\ i + Len(c) <= Len(s)
          /\ \A k \in 1..Len(s) :
                IF k > i /\ k <= i + Len(c) THEN s[k] = c[k - i] ELSE s[k] = " "

Cores(s) == {SubSeq(s, i, j) : i \in 1..Len(s) + 1, j \in 0..Len(s)}

Variants(a, b) ==
    \E ca \in Cores(a), cb \in Cores(b) :
        /\ IsCoreOf(ca, a)
        /\ IsCoreOf(cb, b)
        /\ Len(ca) = Len(cb)
        /\ \A k \in 1..Len(ca) : SameLetter(ca[k], cb[k])

C6_VariantsShareOneEntry ==
    [][last'.op = "set_author" =>
          \A v \in Names : Variants(last'.name, v) =>
              /\ GetAuthorIn(author_cache', v, now') =
                    [name |-> last'.name, h_index |-> last'.rec.h_index,
                     citation_count |-> last'.rec.citation_count,
                     paper_count |-> last'.rec.paper_count, url |-> last'.rec.url,
                     cached_at |-> Iso(now')]
              /\ (GetAuthorIn(author_cache, v, now) # None
                    => Len(author_cache') = Len(author_cache))]_vars

C6_Witness ==
    /\ last.op = "set_author"
    /\ last.name = <<"j", " ">>
    /\ Len(author_cache) = 1
    /\ \E e \in Range(LoadedAuthor) :
          /\ e.val.name = <<"J">>
          /\ AgeAtLoad(e, "cached_at") < AuthorCacheExpiryDays

\* C7: after a save whose sent-papers write succeeded, a CacheManager
\* constructed on the same store, its load reaching the store, reports as sent
\* every identifier that was reported sent at the save and whose record is
\* within the sent-papers threshold on the day of the load.
C7_SentPapersRoundTrip ==
    (cm_state = "ready" /\ saved_sent.valid /\ load_outcome.sent # "unreachable") =>
        \A e \in Range(saved_sent.d) :
            (/\ IsPaperSentIn(saved_sent.d, e.val.paper_id)
             /\ load_outcome.day - e.val.sent_at[2] <= SentPapersExpiryDays)
                => IsPaperSentIn(sent_papers, e.val.paper_id)

C7_Witness ==
    /\ cm_state = "ready"
    /\ backend = "gist"
    /\ saved_sent.valid
    /\ load_outcome.sent = "ok"
    /\ procs = 2
    /\ last = NoCall
    /\ Len(saved_sent.d) = 2
    /\ \A e \in Range(saved_sent.d) : e.val.sent_at[2] >= StartDay
    /\ Range(sent_papers) = Range(LoadedSent)
    /\ \A e \in Range(saved_sent.d) : IsPaperSentIn(sent_papers, e.val.paper_id)

\* C8: the backend does not show in what the cache answers: after calls of
\* set_author and mark_paper_sent on a CacheManager that started empty, and a
\* save whose two writes succeeded, a CacheManager constructed on the local
\* files and one constructed on the remote store answer get_author (presence
\* of the record, h_index, citation_count, paper_count, url) and is_paper_sent
\* alike.
SavedBoth ==
    /\ cm_state = "saved"
    /\ procs = 1
    /\ store_author = WrittenFile(backend, author_cache, AuthorCacheColumns)
    /\ store_sent = WrittenFile(backend, sent_papers, SentPapersColumns)

\* the construction that follows the save, on the backend of the state and on
\* the other one, which the same calls leave holding the same two mappings
FreshLoad(bk) ==
    LoadCaches(bk,
               IF bk = backend THEN store_author
               ELSE WrittenFile(bk, author_cache, AuthorCacheColumns),
               IF bk = backend THEN store_sent
               ELSE WrittenFile(bk, sent_papers, SentPapersColumns),
               IF bk = "gist" THEN "ok" ELSE "file",
               IF bk = "gist" THEN "ok" ELSE "file", now)

ObservedAuthor(rec) ==
    IF rec = None THEN None
    ELSE [h_index |-> rec.h_index, citation_count |-> rec.citation_count,
          paper_count |-> rec.paper_count, url |-> rec.url]

C8_BackendsAnswerAlike ==
    SavedBoth =>
        /\ ~FreshLoad("local").raised
        /\ ~FreshLoad("gist").raised
        /\ \A name \in Names :
              ObservedAuthor(GetAuthorIn(FreshLoad("local").author, name, now))
                = ObservedAuthor(GetAuthorIn(FreshLoad("gist").author, name, now))
        /\ \A paper \in AllPapers :
              IsPaperSentIn(FreshLoad("local").sent, paper.id)
                = IsPaperSentIn(FreshLoad("gist").sent, paper.id)

\* C9: a load of the remote store that cannot reach it does not raise: the
\* mapping it was to fill is empty, the construction completes, and the run
\* goes on with every fetched paper, none filtered out as sent.
C9_UnreachableLoadIsEmpty ==
    (backend = "gist" /\ pc # "start") =>
        /\ load_outcome.author = "unreachable" => author_cache = EmptyDict
        /\ load_outcome.sent = "unreachable" => sent_at_load = EmptyDict
        /\ "unreachable" \in {load_outcome.author, load_outcome.sent}
              => cm_state \in {"ready", "saved"}
        /\ (load_outcome.sent = "unreachable" /\ pc \in {"process", "save", "done"})
              => papers = Limit(all_papers, cfg.max_papers)

C9_Witness ==
    /\ backend = "gist"
    /\ load_outcome.sent = "unreachable"
    /\ store_sent.kind = "csv"
    /\ ~cfg.no_cache
    /\ pc = "process"
    /\ Len(papers) = 2
    /\ \A i \in 1..2 : IsPaperSentIn(GistLoad(store_sent, SentPapersColumns, "ok").d,
                                      papers[i].id)

\* C10: malformed persisted data loads as no data: the construction does not
\* raise and the mapping is empty.
C10_MalformedLoadsAsNoData ==
    cm_state \in {"ready", "raised"} =>
        /\ (store_author \in MalformedAuthorFiles(backend) /\ load_outcome.author # "unreachable")
              => (cm_state = "ready" /\ author_cache = EmptyDict)
        /\ (store_sent \in MalformedSentFiles(backend) /\ load_outcome.sent # "unreachable")
              => (cm_state = "ready" /\ sent_papers = EmptyDict)

\* C11: save attempts both writes on every call, the sent papers also when
\* the write of the author cache failed, and returns to its caller without an
\* exception whatever the two writes met.
C11_SaveAttemptsBothAndSwallows ==
    last.op = "save" =>
        /\ last.wrote = <<"author", "sent">>
        /\ ~last.raised
        /\ cm_state = "saved"
        /\ last.out_sent = "ok"
              => store_sent = WrittenFile(backend, sent_papers, SentPapersColumns)

C11_Witness ==
    /\ last.op = "save"
    /\ last.out_author # "ok"
    /\ last.out_sent = "ok"
    /\ author_cache # EmptyDict
    /\ sent_papers # EmptyDict
    /\ store_author # WrittenFile(backend, author_cache, AuthorCacheColumns)
    /\ store_sent = WrittenFile(backend, sent_papers, SentPapersColumns)

\* C12: a save call leaves the author mapping and the sent-paper mapping as
\* they were, whether its writes succeed or fail.
C12_SaveKeepsMemory ==
    [][last'.op = "save" =>
          /\ author_cache' = author_cache
          /\ sent_papers' = sent_papers]_vars

C12_Witness ==
    /\ last.op = "save"
    /\ last.out_author # "ok"
    /\ last.out_sent # "ok"
    /\ author_cache # EmptyDict
    /\ sent_papers # EmptyDict

\* C13: in a run that is not a dry run mark_paper_sent is called for a
\* processed paper exactly when send_paper returned true for it; a paper for
\* which send_paper returned false has no sent record at the end of the run,
\* and get_unsent_papers of the next run returns it when the feed still has it.
MarkedIffSent ==
    notified # <<>> =>
        ((last.op = "mark_paper_sent" /\ last.papers = <<notified[Len(notified)]>>)
            <=> send_results[Len(notified)])

NeverSent(id) ==
    /\ ~DictHas(sent_at_load, PaperKey(id))
    /\ \A j \in 1..Len(notified) : notified[j].id = id => ~send_results[j]

-----------------------------------------------------------------------------
(* AuthorEvaluator and Paper.compute_score *)

MaxEvalAuthors == 2     \* authors of the paper an evaluator call is made with
MaxEvals == 1           \* evaluator calls of one process

\* models/paper.py parse_author_name on a name: the text is stripped and
\* split on its last space
RECURSIVE LastSpace(_)
LastSpace(s) == IF s = <<>> \/ s[Len(s)] = " " THEN Len(s) ELSE LastSpace(SubSeq(s, 1, Len(s) - 1))

ParseAuthorName(text) ==
    LET name == Strip(text)
        at == LastSpace(name)
    IN [type |-> "AuthorName",
        firstname |-> IF at = 0 THEN <<>> ELSE SubSeq(name, 1, at - 1),
        lastname |-> SubSeq(name, at + 1, Len(name)),
        fullname |-> name]

\* a name that is a plain str
PlainName(text) == [type |-> "str", fullname |-> text]

\* semantic_scholar_url = None
NoUrl == "None"

\* models/paper.py Author, as the sources construct it
NewAuthor(name) ==
    [name |-> name, h_index |-> NoneV, citation_count |-> NoneV,
     paper_count |-> NoneV, semantic_scholar_url |-> NoUrl]

\* bool(name): a NamedTuple of three fields is never empty
Truthy(name) == name.type = "AuthorName" \/ name.fullname # <<>>

\* name.lower() exists for a str only
HasLower(name) == name.type = "str"

\* what the lookup service answers to one request: an author with an
\* h-index or with a null one, a failure of the request (an answer without a
\* match ends the same way), a body that is not a JSON object
FetchedHIndex == {7, 120}
Outcomes ==
    {[kind |-> "found", h |-> IntV(h)] : h \in FetchedHIndex} \cup
    {[kind |-> "found", h |-> NoneV]} \cup
    {[kind |-> k, h |-> NoneV] : k \in {"network_error", "malformed"}}

ApiData(h) == [hIndex |-> h, citationCount |-> IntV(1000), paperCount |-> IntV(50),
               url |-> "https://s2/a"]

\* AuthorEvaluator._search_author: a RequestException is caught and logged,
\* a body that is not a JSON object raises out of the method
SearchAuthor(outcome) ==
    CASE outcome.kind = "found" -> [raised |-> FALSE, data |-> ApiData(outcome.h)]
      [] outcome.kind = "malformed" -> [raised |-> TRUE, data |-> None]
      [] OTHER -> [raised |-> FALSE, data |-> None]

\* what an evaluator call did, in order
Event(ev, at) == [ev |-> ev, at |-> at]

\* the metrics of an author, as set_author takes them
MetricsOf(author) ==
    [h_index |-> author.h_index, citation_count |-> author.citation_count,
     paper_count |-> author.paper_count, url |-> author.semantic_scholar_url]

\* the author with the fields of the service's answer
Fetched(author, data) ==
    [author EXCEPT !.h_index = Get(data, "hIndex", IntV(0)),
                   !.citation_count = Get(data, "citationCount", IntV(0)),
                   !.paper_count = Get(data, "paperCount", IntV(0)),
                   !.semantic_scholar_url = Get(data, "url", "")]

\* AuthorEvaluator._evaluate_author: the author, the cache and the events
\* after the call, and whether it raised
EvaluateAuthor(author, ac, outcome, day, at) ==
    IF ~Truthy(author.name)
    THEN [author |-> author, cache |-> ac, trace |-> <<>>, raised |-> FALSE]
    ELSE IF ~HasLower(author.name)
    THEN [author |-> author, cache |-> ac, trace |-> <<>>, raised |-> TRUE]
    ELSE LET cached == GetAuthorIn(ac, author.name.fullname, day) IN
         IF cached # None
         THEN [author |-> [author EXCEPT !.h_index = Get(cached, "h_index", NoneV),
                                         !.citation_count = Get(cached, "citation_count", NoneV),
                                         !.paper_count = Get(cached, "paper_count", NoneV),
                                         !.semantic_scholar_url = Get(cached, "url", NoUrl)],
               cache |-> ac, trace |-> <<Event("hit", at)>>, raised |-> FALSE]
         ELSE LET s == SearchAuthor(outcome) IN
              IF s.raised \/ s.data = None
              THEN [author |-> author, cache |-> ac,
                    trace |-> <<Event("miss", at), Event("search", at)>>, raised |-> FALSE]
              ELSE LET a == Fetched(author, s.data)
                   IN [author |-> a,
                       cache |-> SetAuthorIn(ac, author.name.fullname, MetricsOf(a), day),
                       trace |-> <<Event("miss", at), Event("search", at),
                                   Event("set_author", at)>>,
                       raised |-> FALSE]

\* the types Python compares: an int, or a str as the CSV gives it back
IsInt(v) == v[1] = "int"
IsStr(v) == v[1] \in {"digits", "empty"}

RECURSIVE Decimal(_)
Decimal(n) == IF n < 10 THEN <<n>> ELSE Append(Decimal(n \div 10), n % 10)

\* the characters of a str value
TextOf(v) == IF v = EmptyV THEN <<>> ELSE Decimal(v[2])

\* a <= b for two str
RECURSIVE StrLeq(_, _)
StrLeq(a, b) ==
    IF a = <<>> THEN TRUE
    ELSE IF b = <<>> THEN FALSE
    ELSE IF Head(a) # Head(b) THEN Head(a) < Head(b)
    ELSE StrLeq(Tail(a), Tail(b))

\* v >= n for an int n raises TypeError unless v is an int
CompareRaises(v) == ~IsInt(v)

\* max() of a non-empty list raises TypeError when it compares an int with a str
MaxRaises(hs) == \E i, j \in 1..Len(hs) : IsInt(hs[i]) /\ ~IsInt(hs[j])

\* max() of a non-empty list of ints, or of strs
PyMax(hs) ==
    IF IsInt(hs[1])
    THEN hs[CHOOSE i \in 1..Len(hs) : \A j \in 1..Len(hs) : hs[j][2] <= hs[i][2]]
    ELSE hs[CHOOSE i \in 1..Len(hs) : \A j \in 1..Len(hs) : StrLeq(TextOf(hs[j]), TextOf(hs[i]))]

\* the tier boundaries of compute_score
TierSPlus == 100
TierS == 50
TierA == 20
TierB == 10

\* (mutant) tiers that begin above their boundary
ScoreClass_Above(h) ==
    IF h > TierSPlus THEN "score-s-plus"
    ELSE IF h > TierS THEN "score-s"
    ELSE IF h > TierA THEN "score-a"
    ELSE IF h > TierB THEN "score-b"
    ELSE "score-c"

\* Paper.compute_score: the score_class of a max_h_index (score_label is set
\* along with it, one label per class)
ScoreClass(h) ==
    IF h >= TierSPlus THEN "score-s-plus"
    ELSE IF h >= TierS THEN "score-s"
    ELSE IF h >= TierA THEN "score-a"
    ELSE IF h >= TierB THEN "score-b"
    ELSE "score-c"

\* the computed fields of a Paper before compute_score has run
NoScore == [max_h_index |-> IntV(0), score_class |-> ""]

\* the h_index of the authors that have one
HIndices(authors) ==
    LET hs == [i \in 1..Len(authors) |-> authors[i].h_index]
    IN SelectSeq(hs, LAMBDA v : v # NoneV)

\* (mutant) compute_score that takes the first author's h-index
MaxHIndex_First(authors, before) ==
    IF authors = <<>> THEN [raised |-> FALSE, max |-> before]
    ELSE IF HIndices(authors) = <<>> THEN [raised |-> FALSE, max |-> IntV(0)]
    ELSE [raised |-> FALSE, max |-> HIndices(authors)[1]]

\* Paper.compute_score, lines 80-82: max_h_index
MaxHIndex(authors, before) ==
    IF authors = <<>> THEN [raised |-> FALSE, max |-> before]
    ELSE LET hs == HIndices(authors) IN
         IF hs = <<>> THEN [raised |-> FALSE, max |-> IntV(0)]
         ELSE IF MaxRaises(hs) THEN [raised |-> TRUE, max |-> before]
         ELSE [raised |-> FALSE, max |-> PyMax(hs)]

\* Paper.compute_score
ComputeScore(authors, before) ==
    LET m == MaxHIndex(authors, before.max_h_index) IN
    IF m.raised \/ CompareRaises(m.max)
    THEN [raised |-> TRUE, max_h_index |-> m.max, score_class |-> before.score_class]
    ELSE [raised |-> FALSE, max_h_index |-> m.max, score_class |-> ScoreClass(m.max[2])]

Min(a, b) == IF a < b THEN a ELSE b

\* (mutant) evaluate_paper that goes through all the authors
Truncate_Not(authors, max_authors) == Len(authors)

\* paper.authors[:max_authors]: the number of authors the loop visits
Truncate(authors, max_authors) == Min(max_authors, Len(authors))

\* the loop of evaluate_paper from the author at position at on
RECURSIVE EvaluateLoop(_, _, _, _, _, _, _)
EvaluateLoop(authors, ac, outcomes, day, at, limit, trace) ==
    IF at > limit
    THEN [authors |-> authors, cache |-> ac, trace |-> trace, raised |-> FALSE]
    ELSE LET r == EvaluateAuthor(authors[at], ac, outcomes[at], day, at) IN
         IF r.raised
         THEN [authors |-> authors, cache |-> r.cache, trace |-> trace \o r.trace,
               raised |-> TRUE]
         ELSE EvaluateLoop([authors EXCEPT ![at] = r.author], r.cache, outcomes, day,
                           at + 1, limit,
                           trace \o r.trace \o
                           (IF at < Len(authors) THEN <<Event("sleep", at)>> ELSE <<>>))

\* AuthorEvaluator.evaluate_paper on a paper whose computed fields are the
\* defaults
EvaluatePaperOn(authors, ac, max_authors, outcomes, day) ==
    LET r == EvaluateLoop(authors, ac, outcomes, day, 1,
                          Truncate(authors, max_authors), <<>>)
        s == ComputeScore(r.authors, NoScore)
    IN IF r.raised
       THEN [authors |-> r.authors, cache |-> r.cache, trace |-> r.trace, raised |-> TRUE,
             max_h_index |-> NoScore.max_h_index, score_class |-> NoScore.score_class]
       ELSE [authors |-> r.authors, cache |-> r.cache, trace |-> r.trace,
             raised |-> s.raised, max_h_index |-> s.max_h_index,
             score_class |-> s.score_class]

DefaultCheckFirstN == 3

\* the loop of check_h_index_threshold from the author at position at on
RECURSIVE CheckLoop(_, _, _, _, _, _, _, _)
CheckLoop(authors, ac, min_h_index, outcomes, day, at, limit, trace) ==
    IF at > limit
    THEN [ret_bool |-> FALSE, cache |-> ac, trace |-> trace, raised |-> FALSE]
    ELSE IF ~HasLower(authors[at].name)
    THEN [ret_bool |-> FALSE, cache |-> ac, trace |-> trace, raised |-> TRUE]
    ELSE
    LET name == authors[at].name.fullname
        cached == GetAuthorIn(ac, name, day)
        looked == trace \o <<Event(IF cached # None THEN "hit" ELSE "miss", at)>>
        s == SearchAuthor(outcomes[at])
        searched == looked \o <<Event("search", at)>>
        h_index == Get(s.data, "hIndex", IntV(0))
        stored == SetAuthorIn(ac, name,
                              [h_index |-> h_index,
                               citation_count |-> Get(s.data, "citationCount", IntV(0)),
                               paper_count |-> Get(s.data, "paperCount", IntV(0)),
                               url |-> Get(s.data, "url", "")], day)
    IN
    IF cached # None /\ CompareRaises(Get(cached, "h_index", IntV(0)))
    THEN [ret_bool |-> FALSE, cache |-> ac, trace |-> looked, raised |-> TRUE]
    ELSE IF cached # None /\ Get(cached, "h_index", IntV(0))[2] >= min_h_index
    THEN [ret_bool |-> TRUE, cache |-> ac, trace |-> looked, raised |-> FALSE]
    ELSE IF s.raised
    THEN [ret_bool |-> FALSE, cache |-> ac, trace |-> searched, raised |-> TRUE]
    ELSE IF s.data = None
    THEN CheckLoop(authors, ac, min_h_index, outcomes, day, at + 1, limit,
                   searched \o <<Event("sleep", at)>>)
    ELSE IF CompareRaises(h_index)
    THEN [ret_bool |-> FALSE, cache |-> stored,
          trace |-> searched \o <<Event("set_author", at)>>, raised |-> TRUE]
    ELSE IF h_index[2] >= min_h_index
    THEN [ret_bool |-> TRUE, cache |-> stored,
          trace |-> searched \o <<Event("set_author", at)>>, raised |-> FALSE]
    ELSE CheckLoop(authors, stored, min_h_index, outcomes, day, at + 1, limit,
                   searched \o <<Event("set_author", at), Event("sleep", at)>>)

\* AuthorEvaluator.check_h_index_threshold
CheckHIndexThresholdOn(authors, ac, min_h_index, check_first_n, outcomes, day) ==
    CheckLoop(authors, ac, min_h_index, outcomes, day, 1,
              Truncate(authors, check_first_n), <<>>)

\* the names of the authors of a feed entry, and the authors made of them
EvalNames == {<<"J">>, <<"j", " ">>, <<"j", "J">>}
EvalAuthors ==
    {NewAuthor(ParseAuthorName(<<"J">>))} \cup {NewAuthor(PlainName(n)) : n \in EvalNames}

SeqsUpTo(S, n) == UNION {[1..k -> S] : k \in 0..n}

AuthorLists == SeqsUpTo(EvalAuthors, MaxEvalAuthors)
MinHIndexSettings == {TierB, TierS}
CheckFirstNSettings == {1, DefaultCheckFirstN}
EvalMaxAuthorsSettings == {0, 1, DefaultMaxAuthors}

\* the call of the evaluator made by the last step: what it was given, the
\* cache before it, and what it left
EvalCall(op, authors, limit, min_h_index, outcomes, r, after) ==
    [op |-> op, name |-> <<>>, rec |-> None, papers |-> <<>>, ret_list |-> <<>>,
     ret_bool |-> r.ret_bool, again |-> FALSE,
     given |-> authors, limit |-> limit, min_h_index |-> min_h_index,
     outcomes |-> outcomes, before |-> author_cache, day |-> now,
     authors |-> after, trace |-> r.trace, raised |-> r.raised,
     max_h_index |-> r.max_h_index, score_class |-> r.score_class]

\* evaluator.evaluate_paper(paper, max_authors=max_authors)
EvaluatePaper(authors, max_authors, outcomes) ==
    /\ cm_state = "ready"
    /\ ops < MaxEvals
    /\ \E r \in {EvaluatePaperOn(authors, author_cache, max_authors, outcomes, now)} :
       /\ author_cache' = r.cache
       /\ last' = EvalCall("evaluate_paper", authors, max_authors, 0, outcomes,
                           [r EXCEPT !.authors = <<>>] @@ [ret_bool |-> FALSE], r.authors)
    /\ ops' = ops + 1
    /\ UNCHANGED <<backend, now, store_author, store_sent, cm_state, sent_papers,
                   load_outcome, saved_sent, procs, runvars>>

\* evaluator.check_h_index_threshold(paper, min_h_index, check_first_n)
CheckHIndexThreshold(authors, min_h_index, check_first_n, outcomes) ==
    /\ cm_state = "ready"
    /\ ops < MaxEvals
    /\ \E r \in {CheckHIndexThresholdOn(authors, author_cache, min_h_index,
                                        check_first_n, outcomes, now)} :
       /\ author_cache' = r.cache
       /\ last' = EvalCall("check_h_index_threshold", authors, check_first_n,
                           min_h_index, outcomes,
                           r @@ [max_h_index |-> NoScore.max_h_index,
                                 score_class |-> NoScore.score_class], authors)
    /\ ops' = ops + 1
    /\ UNCHANGED <<backend, now, store_author, store_sent, cm_state, sent_papers,
                   load_outcome, saved_sent, procs, runvars>>

\* author caches an earlier process saved: an entry of each age about the
\* expiry, an entry without an h-index, an entry below the thresholds
EvalAuthorData ==
    {EmptyDict} \cup
    {SetAuthorIn(EmptyDict, <<"j">>, MetricsA, StartDay - age) :
        age \in Ages(AuthorCacheExpiryDays)} \cup
    {SetAuthorIn(EmptyDict, <<"j">>, MetricsB, StartDay - 1),
     SetAuthorIn(EmptyDict, <<"j">>, [MetricsA EXCEPT !.h_index = IntV(7)], StartDay - 1),
     SetAuthorIn(SetAuthorIn(EmptyDict, <<"j">>, [MetricsA EXCEPT !.h_index = IntV(7)],
                             StartDay - 1),
                 <<"j", "J">>, MetricsA, StartDay - 1)}

EvalFiles(bk) ==
    {<<WrittenFile(bk, d, AuthorCacheColumns), AbsentFile>> : d \in EvalAuthorData}

InitEval == InitStore(EvalFiles("local"), EvalFiles("gist")) /\ RunIdle

NextEval ==
    \/ \E out \in {IF backend = "gist" THEN "ok" ELSE "file"} : Construct(out, out)
    \/ Tick
    \/ \E authors \in AuthorLists, max_authors \in EvalMaxAuthorsSettings :
          \E outcomes \in [1..Len(authors) -> Outcomes] :
              EvaluatePaper(authors, max_authors, outcomes)
    \/ \E authors \in AuthorLists, min_h_index \in MinHIndexSettings,
          check_first_n \in CheckFirstNSettings :
          \E outcomes \in [1..Len(authors) -> Outcomes] :
              CheckHIndexThreshold(authors, min_h_index, check_first_n, outcomes)

SpecEval == InitEval /\ [][NextEval]_vars

-----------------------------------------------------------------------------
(* Paper.compute_score on its own *)

MaxHIndexValue == 120   \* the greatest h-index an author of the paper has

\* the authors of a paper when compute_score runs: none, one without an
\* h-index, one with an h-index
ScoredAuthorLists ==
    {<<>>, <<NewAuthor(ParseAuthorName(<<"J">>))>>} \cup
    {<<[NewAuthor(ParseAuthorName(<<"J">>)) EXCEPT !.h_index = IntV(h)]>> :
        h \in 0..MaxHIndexValue}

\* paper.compute_score()
ComputeScoreOf(authors) ==
    /\ \E r \in {ComputeScore(authors, NoScore)} :
          last' = EvalCall("compute_score", authors, Len(authors), 0, <<>>,
                           r @@ [ret_bool |-> FALSE, trace |-> <<>>], authors)
    /\ UNCHANGED <<cmvars, ops, runvars>>

InitScore == InitCold

NextScore == \E authors \in ScoredAuthorLists : ComputeScoreOf(authors)

SpecScore == InitScore /\ [][NextScore]_vars

-----------------------------------------------------------------------------
(* Two processes on the same gist at the same time *)

MaxRaceMarks == 1       \* papers a process marks before it saves

RacerIds == {1, 2}

\* a process that has not constructed its CacheManager yet; seen counts the
\* saves made when it loaded, turn is the place of its own save among them
NewRacer ==
    [state |-> "none", author_cache |-> EmptyDict, sent_papers |-> EmptyDict,
     loaded |-> FALSE, seen |-> 0, marks |-> 0, turn |-> 0, wrote |-> FALSE,
     raised |-> FALSE]

SavesMade == Cardinality({p \in RacerIds : racers[p].turn > 0})

\* cache = CacheManager(...) in the process p
RaceConstruct(p, outA, outS) ==
    /\ racers[p].state = "none"
    /\ \E r \in {LoadCaches(backend, store_author, store_sent, outA, outS, now)} :
          racers' = [racers EXCEPT ![p] =
                        [@ EXCEPT !.state = IF r.raised THEN "raised" ELSE "ready",
                                  !.author_cache = r.author,
                                  !.sent_papers = r.sent,
                                  !.loaded = outS = "ok",
                                  !.seen = SavesMade]]
    /\ UNCHANGED <<cmvars, apivars, pc, cfg, all_papers, papers, idx, notified,
                   send_results, sent_at_load, prev>>

\* cache.mark_paper_sent(...) in the process p
RaceMarkPaperSent(p, paper) ==
    /\ racers[p].state = "ready"
    /\ racers[p].marks < MaxRaceMarks
    /\ racers' = [racers EXCEPT ![p] =
                     [@ EXCEPT !.sent_papers = MarkSent(@, paper, now),
                               !.marks = @ + 1]]
    /\ UNCHANGED <<cmvars, apivars, pc, cfg, all_papers, papers, idx, notified,
                   send_results, sent_at_load, prev>>

\* cache.save() in the process p
RaceSave(p, outA, outS) ==
    /\ racers[p].state = "ready"
    /\ \E r \in {SaveCaches(backend, store_author, store_sent, racers[p].author_cache,
                            racers[p].sent_papers, outA, outS)} :
          /\ store_author' = r.author
          /\ store_sent' = r.sent
          /\ racers' = [racers EXCEPT ![p] =
                           [@ EXCEPT !.state = "saved",
                                     !.turn = SavesMade + 1,
                                     !.wrote = outS = "ok",
                                     !.raised = r.raised]]
    /\ UNCHANGED <<backend, now, cm_state, author_cache, sent_papers, load_outcome,
                   saved_sent, procs, apivars, pc, cfg, all_papers, papers, idx,
                   notified, send_results, sent_at_load, prev>>

RaceFiles == {<<AbsentFile, f>> : f \in PlainSentFiles("gist")}

InitRace ==
    /\ InitStore(RaceFiles, RaceFiles)
    /\ backend = "gist"
    /\ pc = "idle"
    /\ cfg = [no_cache |-> FALSE, dry_run |-> FALSE, evaluate_authors |-> TRUE,
              max_authors |-> DefaultMaxAuthors, max_papers |-> DefaultMaxPapersPerRun]
    /\ all_papers = <<>>
    /\ papers = <<>>
    /\ idx = 0
    /\ notified = <<>>
    /\ send_results = <<>>
    /\ sent_at_load = EmptyDict
    /\ prev = NoPrev
    /\ racers = [p \in RacerIds |-> NewRacer]

NextRace ==
    \/ \E p \in RacerIds, outA, outS \in GistOutcomes : RaceConstruct(p, outA, outS)
    \/ \E p \in RacerIds, paper \in AllPapers : RaceMarkPaperSent(p, paper)
    \/ \E p \in RacerIds, outA, outS \in GistOutcomes : RaceSave(p, outA, outS)

SpecRace == InitRace /\ [][NextRace]_vars

-----------------------------------------------------------------------------
(* Claims on the evaluator *)

\* the evaluator asked the service for the author at a position
Searched(at) == \E k \in 1..Len(last.trace) : last.trace[k] = Event("search", at)

\* the author carries the metrics of a cache record
PopulatedFrom(author, rec) ==
    /\ author.h_index = Get(rec, "h_index", NoneV)
    /\ author.citation_count = Get(rec, "citation_count", NoneV)
    /\ author.paper_count = Get(rec, "paper_count", NoneV)
    /\ author.semantic_scholar_url = Get(rec, "url", NoUrl)

\* C14: resolving an author whose name has a valid cache entry asks the
\* service nothing and fills the author's fields from the entry; resolving an
\* author without one whose lookup succeeds stores the metrics, so that an
\* author of the same name resolved later in the call gets the same metrics
\* whatever the service would answer then.
C14_CacheFirstWriteThrough ==
    (last.op = "evaluate_paper" /\ last.limit >= 1 /\ last.given # <<>>) =>
        LET name == last.given[1].name.fullname
            cached == GetAuthorIn(last.before, name, last.day)
            stored == GetAuthorIn(author_cache, name, last.day)
        IN /\ cached # None =>
                 ~Searched(1) /\ PopulatedFrom(last.authors[1], cached)
           /\ (cached = None /\ last.outcomes[1].kind = "found") =>
                 /\ last.authors[1] = Fetched(last.given[1], ApiData(last.outcomes[1].h))
                 /\ stored # None
                 /\ PopulatedFrom(last.authors[1], stored)
                 /\ (/\ Len(last.given) >= 2
                     /\ last.limit >= 2
                     /\ AuthorKey(last.given[2].name.fullname) = AuthorKey(name)) =>
                        /\ ~Searched(2)
                        /\ MetricsOf(last.authors[2]) = MetricsOf(last.authors[1])

\* the authors the sources built
SourceBuilt(authors) == \A i \in 1..Len(authors) : authors[i].name.type = "AuthorName"

\* m is the greatest h-index of the authors that have one, 0 when none has
IsMaxResolved(m, authors) ==
    LET resolved == {i \in 1..Len(authors) : authors[i].h_index # NoneV} IN
    IF resolved = {} THEN m = IntV(0)
    ELSE /\ \E i \in resolved : m = authors[i].h_index
         /\ \A i \in resolved :
               IsInt(authors[i].h_index) /\ IsInt(m) /\ authors[i].h_index[2] <= m[2]

\* C15: for a paper whose authors the sources built and any outcomes of the
\* lookups, evaluate_paper returns without raising, every author among the
\* first max_authors whose lookup succeeded has metrics, and the paper's
\* score is the maximum over the resolved authors.
C15_EvaluationSurvivesLookups ==
    (last.op = "evaluate_paper" /\ SourceBuilt(last.given)) =>
        /\ ~last.raised
        /\ \A i \in 1..Truncate(last.given, last.limit) :
              last.outcomes[i].kind = "found" => last.authors[i].citation_count # NoneV
        /\ IsMaxResolved(last.max_h_index, last.authors)

\* C16: evaluate_paper waits only between two consecutive requests to the
\* service: each wait follows an author the service was asked for and comes
\* before another request, and no wait follows an author resolved from the
\* cache.
C16_DelayOnlyBetweenFetches ==
    last.op = "evaluate_paper" =>
        \A k \in 1..Len(last.trace) :
            last.trace[k].ev = "sleep" =>
                /\ Searched(last.trace[k].at)
                /\ \E j \in (k + 1)..Len(last.trace) : last.trace[j].ev = "search"

\* the evaluator looked the author at a position up in the cache
LookedUp(at) ==
    \E k \in 1..Len(last.trace) : last.trace[k] \in {Event("hit", at), Event("miss", at)}

\* C17: evaluate_paper resolves the first max_authors authors, in the order
\* of the paper: every cache lookup, request and write is for one of them,
\* positions never go back, a call that returns has looked each of them up,
\* and an author at a later position keeps all its fields.
C17_OnlyFirstMaxAuthors ==
    last.op = "evaluate_paper" =>
        /\ \A k \in 1..Len(last.trace) : last.trace[k].at <= last.limit
        /\ \A j, k \in 1..Len(last.trace) : j < k => last.trace[j].at <= last.trace[k].at
        /\ ~last.raised =>
              \A i \in 1..Len(last.given) : i <= last.limit => LookedUp(i)
        /\ \A i \in 1..Len(last.given) : i > last.limit => last.authors[i] = last.given[i]

\* a paper of two authors evaluated with max_authors = 1: the first is
\* fetched, the second has a valid cache entry and is left as it was
C17_Witness ==
    /\ last.op = "evaluate_paper"
    /\ ~last.raised
    /\ Len(last.given) = 2
    /\ last.limit = 1
    /\ Searched(1)
    /\ last.authors[1] # last.given[1]
    /\ GetAuthorIn(last.before, last.given[2].name.fullname, last.day) # None
    /\ last.authors[2] = last.given[2]

\* C18: when evaluate_paper has returned, the paper's max_h_index is the
\* greatest h-index of its authors that have one, and 0 when none has.
C18_MaxOverResolved ==
    (last.op = "evaluate_paper" /\ ~last.raised) =>
        IsMaxResolved(last.max_h_index, last.authors)

\* the first author resolved from the cache with 7, the second fetched with
\* 120: the paper has 120
C18_Witness ==
    /\ last.op = "evaluate_paper"
    /\ ~last.raised
    /\ Len(last.given) = 2
    /\ ~Searched(1)
    /\ last.authors[1].h_index = IntV(7)
    /\ Searched(2)
    /\ last.authors[2].h_index = IntV(120)
    /\ last.max_h_index = IntV(120)

\* the tiers, from the baseline up
TierRank(score_class) ==
    CASE score_class = "score-c" -> 1
      [] score_class = "score-b" -> 2
      [] score_class = "score-a" -> 3
      [] score_class = "score-s" -> 4
      [] score_class = "score-s-plus" -> 5

\* the tier compute_score gave is the one of the five its max_h_index
\* belongs to
InItsTier ==
    (last.op = "compute_score" /\ ~last.raised) =>
        LET h == last.max_h_index[2] IN
        /\ last.score_class = "score-s-plus" <=> h >= 100
        /\ last.score_class = "score-s" <=> (h >= 50 /\ h < 100)
        /\ last.score_class = "score-a" <=> (h >= 20 /\ h < 50)
        /\ last.score_class = "score-b" <=> (h >= 10 /\ h < 20)
        /\ last.score_class = "score-c" <=> h < 10

\* of two calls of compute_score one after the other, the one with the
\* greater max_h_index gives no lower tier
TierGrows ==
    (/\ last.op = "compute_score" /\ ~last.raised
     /\ last'.op = "compute_score" /\ ~last'.raised
     /\ last.max_h_index[2] <= last'.max_h_index[2]) =>
        TierRank(last.score_class) <= TierRank(last'.score_class)

\* C19: compute_score maps max_h_index to exactly one of five tiers with the
\* boundaries >= 100, >= 50, >= 20, >= 10 and below (100 is in the top tier,
\* 99 in the one below it, 0 in the baseline), and the tier never goes down
\* when max_h_index goes up.
C19_FiveOrderedTiers == []InItsTier /\ [][TierGrows]_vars

\* compute_score on a paper whose author has the h-index 99: the tier below
\* the top one
C19_Witness ==
    /\ last.op = "compute_score"
    /\ ~last.raised
    /\ last.max_h_index = IntV(99)
    /\ last.score_class = "score-s"

\* the number a metric value stands for is at least n
AtLeast(v, n) == v[1] \in {"int", "digits"} /\ v[2] >= n

\* the first author of the call has a valid cache entry with an h-index of
\* at least min_h_index, or has none and is found with such an h-index
FirstQualifies ==
    LET cached == GetAuthorIn(last.before, last.given[1].name.fullname, last.day) IN
    \/ cached # None /\ AtLeast(Get(cached, "h_index", IntV(0)), last.min_h_index)
    \/ /\ cached = None
       /\ last.outcomes[1].kind = "found"
       /\ AtLeast(last.outcomes[1].h, last.min_h_index)

\* C20: check_h_index_threshold examines at most the first check_first_n
\* authors, in the order of the paper; it returns true as soon as an author's
\* cached or fetched h-index is at least min_h_index, with no cache lookup
\* and no request for the authors after that one; it returns false only
\* when no examined author has such an h-index.
C20_ThresholdShortCircuits ==
    last.op = "check_h_index_threshold" =>
        /\ \A k \in 1..Len(last.trace) : last.trace[k].at <= last.limit
        /\ \A j, k \in 1..Len(last.trace) : j < k => last.trace[j].at <= last.trace[k].at
        /\ (last.given # <<>> /\ last.limit >= 1 /\ FirstQualifies) =>
              /\ ~last.raised
              /\ last.ret_bool
              /\ \A k \in 1..Len(last.trace) : last.trace[k].at = 1
        /\ (~last.raised /\ last.ret_bool) =>
              LET e == last.trace[Len(last.trace)] IN
              \/ e.ev = "hit"
              \/ e.ev = "set_author" /\ AtLeast(last.outcomes[e.at].h, last.min_h_index)
        /\ (~last.raised /\ ~last.ret_bool) =>
              \A i \in 1..Truncate(last.given, last.limit) :
                  /\ Searched(i)
                  /\ ~(last.outcomes[i].kind = "found"
                       /\ AtLeast(last.outcomes[i].h, last.min_h_index))

\* C22: check_h_index_threshold asks the service for an author only when the
\* author has no valid cache entry; an author whose valid entry has an
\* h-index below min_h_index is decided from the cache, without a request.
C22_FetchOnlyWithoutEntry ==
    last.op = "check_h_index_threshold" =>
        \A i \in 1..Len(last.given) :
            Searched(i) => Event("hit", i) \notin Range(last.trace)

\* the papers with a row in a CSV document
IdsIn(file) == {file.d[i].paper_id : i \in 1..Len(file.d)}

\* the papers with a record in a mapping
IdsOf(sp) == {DictValues(sp)[i].paper_id : i \in 1..Len(sp)}

\* C21: the write to the gist is not guarded: when two processes have both
\* loaded the document before either saved, after both saves the document
\* holds the last writer's mapping and nothing else, a paper only the first
\* writer has a record of is absent, and neither save raised.
C21_LastWriterWins ==
    \A p, q \in RacerIds :
        (/\ racers[p].turn = 1 /\ racers[q].turn = 2
         /\ racers[p].seen = 0 /\ racers[q].seen = 0
         /\ racers[p].loaded /\ racers[q].loaded
         /\ racers[p].wrote /\ racers[q].wrote) =>
            /\ store_sent = CsvOf(racers[q].sent_papers, SentPapersColumns)
            /\ IdsIn(store_sent) \cap (IdsOf(racers[p].sent_papers)
                                       \ IdsOf(racers[q].sent_papers)) = {}
            /\ ~racers[p].raised
            /\ ~racers[q].raised

\* the first writer marked the preprint and saved, the second had loaded
\* before that and saved after it: the preprint's record is gone
C21_Witness ==
    \E p, q \in RacerIds :
        /\ racers[p].turn = 1 /\ racers[q].turn = 2
        /\ racers[p].seen = 0 /\ racers[q].seen = 0
        /\ racers[p].loaded /\ racers[q].loaded
        /\ racers[p].wrote /\ racers[q].wrote
        /\ PaperB.id \in IdsOf(racers[p].sent_papers)
        /\ PaperB.id \notin IdsOf(racers[q].sent_papers)
        /\ PaperB.id \notin IdsIn(store_sent)

-----------------------------------------------------------------------------
(* Claims on the order of a run *)

\* the place of the record of identifier id in the mapping sp
PosIn(sp, id) == CHOOSE i \in 1..Len(sp) : sp[i].key = PaperKey(id)

\* ret is ps with some elements left out, the others in the order of ps
IsInOrderOf(ret, ps) ==
    \E keep \in SUBSET (1..Len(ps)) : IsTheSubsequence(ret, ps, keep)

\* the papers handed to send_paper are the first of the list, in its order,
\* and the list has the order of the fetched one
ProcessedInFetchedOrder ==
    /\ IsInOrderOf(papers, all_papers)
    /\ notified = SubSeq(papers, 1, Len(notified))
    /\ Len(send_results) = Len(notified)

\* C23 (as stated): papers are notified and marked in the order they were
\* fetched, and of two papers a before b that were both notified and marked,
\* the sent-paper mapping holds the record of a before the record of b.
C23_MappingInFetchedOrder ==
    ~cfg.dry_run =>
        /\ ProcessedInFetchedOrder
        /\ \A i, j \in 1..Len(notified) :
              (i < j /\ send_results[i] /\ send_results[j]
                     /\ notified[i].id # notified[j].id) =>
                 PosIn(sent_papers, notified[i].id) < PosIn(sent_papers, notified[j].id)

\* the mark of the i-th notified paper made a new record: the load gave none
\* for its identifier and no earlier paper of the run with it was marked
MarkCreated(i) ==
    /\ send_results[i]
    /\ ~DictHas(sent_at_load, PaperKey(notified[i].id))
    /\ \A k \in 1..(i - 1) : notified[k].id = notified[i].id => ~send_results[k]

\* C23 (as amended): papers are notified and marked in the order they were
\* fetched, and of two papers a before b whose marks each created a record,
\* the sent-paper mapping holds the record of a before the record of b.
C23_NewRecordsInFetchedOrder ==
    ~cfg.dry_run =>
        /\ ProcessedInFetchedOrder
        /\ \A i, j \in 1..Len(notified) :
              (i < j /\ MarkCreated(i) /\ MarkCreated(j)) =>
                 PosIn(sent_papers, notified[i].id) < PosIn(sent_papers, notified[j].id)

C23_Witness ==
    /\ ~cfg.dry_run
    /\ pc = "save"
    /\ Len(all_papers) = 2
    /\ notified = all_papers
    /\ MarkCreated(1) /\ MarkCreated(2)
    /\ PosIn(sent_papers, notified[1].id) < PosIn(sent_papers, notified[2].id)

-----------------------------------------------------------------------------
(* Claims on the documents of GistStore *)

\* the rows of a document are in the order of the timestamps of column col
SortedByStamp(file, col) ==
    \A i, j \in 1..Len(file.d) :
        i < j => StampOrd(file.d[i][col]) <= StampOrd(file.d[j][col])

\* C24: the rows GistStore.save writes are sorted by the timestamp of the
\* cache: by sent_at for the sent papers, by cached_at for the authors.
C24_RowsSortedByTimestamp ==
    (backend = "gist" /\ last.op = "save") =>
        /\ ("sent" \in Range(last.wrote) /\ store_sent.kind = "csv") =>
              SortedByStamp(store_sent, "sent_at")
        /\ ("author" \in Range(last.wrote) /\ store_author.kind = "csv") =>
              SortedByStamp(store_author, "cached_at")

-----------------------------------------------------------------------------
(* Claims on the entries of the two mappings *)

\* the step is a call of set_author
IsSetAuthorStep == last'.op = "set_author" /\ ops' = ops + 1

\* the entry set_author is to leave: the metrics given, cached_at and name
EntryOf(name, data, day) ==
    [f \in DOMAIN data \cup {"cached_at", "name"} |->
        IF f = "cached_at" THEN Iso(day) ELSE IF f = "name" THEN name ELSE data[f]]

SetAuthorOverwrites ==
    IsSetAuthorStep =>
        LET key == AuthorKey(last'.name) IN
        /\ DictHas(author_cache', key)
        /\ DictGet(author_cache', key) = EntryOf(last'.name, last'.rec, now)
        /\ DictKeys(author_cache') = DictKeys(author_cache) \cup {key}
        /\ \A k \in DictKeys(author_cache) \ {key} :
              DictGet(author_cache', k) = DictGet(author_cache, k)

\* no call on a CacheManager takes an entry out of its author cache
AuthorEntriesStay ==
    (cm_state # "none" /\ cm_state' # "none") =>
        DictKeys(author_cache) \subseteq DictKeys(author_cache')

\* C25: set_author leaves for the name exactly the given metrics with
\* cached_at of now and the name, whatever entry was there, and leaves every
\* other entry as it was; no call on the manager removes an author entry.
C25_SetAuthorIsOverwritingUpsert == [][SetAuthorOverwrites /\ AuthorEntriesStay]_vars

\* set_author has replaced the entry the load gave for another spelling
C25_Witness ==
    /\ last.op = "set_author"
    /\ ops = 1
    /\ last.rec = MetricsB
    /\ last.name = <<"J">>
    /\ backend = "local"
    /\ \E d \in InitAuthorData :
          /\ Len(d) = 1
          /\ d[1].val.name = <<"j">>
          /\ store_author = WrittenFile("local", d, AuthorCacheColumns)
    /\ Len(author_cache) = 1
    /\ author_cache[1].val.h_index = NoneV

\* every record of the mapping that the step leaves in it is left as it was
SentRecordsKept ==
    \A k \in DictKeys(sent_papers) :
        DictHas(sent_papers', k) => DictGet(sent_papers', k) = DictGet(sent_papers, k)

\* C26: a sent-paper record is created once and never changed: no step of a
\* run and no call on the CacheManager changes a field of a record, sent_at
\* included, while the record is in the mapping.
C26_SentRecordNeverMutated == [][SentRecordsKept]_vars

-----------------------------------------------------------------------------
(* Claims on what a run leaves in the store *)

\* the mapping a load that succeeds reads from a file of the store
StoredIn(bk, file, columns) ==
    IF bk = "gist" THEN GistLoad(file, columns, "ok").d ELSE LoadJson(file).d

\* the keys of the records of a file that have not expired on the day
FreshKeys(bk, file, columns, field, day, expiry) ==
    {e.key : e \in {x \in Range(StoredIn(bk, file, columns)) :
                       ~Expired(x.val, field, day, expiry)}}

FreshSentKeys(file) ==
    FreshKeys(backend, file, SentPapersColumns, "sent_at", now, SentPapersExpiryDays)

FreshAuthorKeys(file) ==
    FreshKeys(backend, file, AuthorCacheColumns, "cached_at", now, AuthorCacheExpiryDays)

StoreKeepsFresh ==
    /\ FreshSentKeys(store_sent) \subseteq FreshSentKeys(store_sent')
    /\ FreshAuthorKeys(store_author) \subseteq FreshAuthorKeys(store_author')

\* C27: no step of a run takes a record that has not expired out of the
\* persistent store, also when the load of the run failed and gave an empty
\* mapping.
C27_RunNeverDeletesFresh == [][StoreKeepsFresh]_vars

\* the run got to cache.save(): the manager is in the state save leaves
SaveWasCalled == cm_state \in {"saved", "raised"} /\ pc # "start"

\* C28: a run in which send_paper returned true for a paper calls
\* cache.save() before the process ends, also when the evaluation of a later
\* paper raises.
C28_SaveAfterSuccessfulSend ==
    (pc \in {"done", "crashed"} /\ TRUE \in Range(send_results)) => SaveWasCalled

\* C29: within one run send_paper is called at most once for a paper
\* identifier, also when the fetched list holds the identifier twice.
C29_NotifiedOncePerId ==
    \A i, j \in 1..Len(notified) : i # j => notified[i].id # notified[j].id

-----------------------------------------------------------------------------
(* Claims on the keys of the two mappings *)

\* C30: every entry of the sent-paper mapping is under the hash of its
\* paper_id and every entry of the author cache under the hash of its
\* lowercased, trimmed name, after a load from either backend and after any
\* calls of set_author and mark_paper_sent.
C30_KeysMatchRecords ==
    cm_state \in {"ready", "saved"} =>
        /\ \A i \in 1..Len(sent_papers) :
              sent_papers[i].key = PaperKey(sent_papers[i].val.paper_id)
        /\ \A i \in 1..Len(author_cache) :
              author_cache[i].key = AuthorKey(author_cache[i].val.name)

====
